---- MODULE Spec2Model ----
(***************************************************************************)
(* Model of src/src/serializer.rs: KeyValueSerializer (the value           *)
(* dispatcher, `impl Serializer for &mut KeyValueSerializer`) and          *)
(* KeyValueSerializerCounted (the field collector, `impl SerializeStruct`).*)
(*                                                                         *)
(* Text is a sequence of one-character strings, so that what is pushed to  *)
(* the output buffer can be inspected character by character.              *)
(***************************************************************************)
EXTENDS Integers, Sequences, FiniteSets, TLC

(* ---------------------------------------------------------------------- *)
(* Bounds of the model                                                     *)
(* ---------------------------------------------------------------------- *)
\* largest `len` handed to serialize_struct by the step-wise caller
MaxFields == 3
\* largest number of serializing calls (offers, serialize_struct, field calls,
\* end) the caller makes on one instance
MaxCalls == 5

\* width of usize in bits.  It is 16, 32 or 64 depending on the target; the
\* model takes the smallest one, the only one TLC's integers can hold.  The
\* collector only compares the counter with 1 and decrements it, so the
\* behaviour is the same for every width larger than the number of calls.
UsizeBits == 16
UsizeModulus == 2 ^ UsizeBits

(* ---------------------------------------------------------------------- *)
(* Text                                                                    *)
(* ---------------------------------------------------------------------- *)
Digit(d) ==
    CASE d = 0 -> "0" [] d = 1 -> "1" [] d = 2 -> "2" [] d = 3 -> "3"
      [] d = 4 -> "4" [] d = 5 -> "5" [] d = 6 -> "6" [] d = 7 -> "7"
      [] d = 8 -> "8" [] d = 9 -> "9"

RECURSIVE u64_to_string(_)
\* <u64 as ToString>::to_string: base-10 digits, most significant first
u64_to_string(n) ==
    IF n < 10 THEN <<Digit(n)>>
    ELSE u64_to_string(n \div 10) \o <<Digit(n % 10)>>

\* <i64 as ToString>::to_string: a minus sign for negatives, then the digits
i64_to_string(n) ==
    IF n < 0 THEN <<"-">> \o u64_to_string(0 - n) ELSE u64_to_string(n)

\* <f64 as ToString>::to_string on the dyadic value h/2 (shortest round-trip
\* form: no fraction for a whole number, ".5" for an odd number of halves)
f64_to_string(h) ==
    LET a == IF h < 0 THEN 0 - h ELSE h
        sign == IF h < 0 THEN <<"-">> ELSE << >>
    IN  sign \o u64_to_string(a \div 2)
             \o (IF a % 2 = 1 THEN <<".", "5">> ELSE << >>)

(* ---------------------------------------------------------------------- *)
(* Values handed to the serializer (what `value.serialize(..)` walks)      *)
(* ---------------------------------------------------------------------- *)
VBool(b)      == [kind |-> "bool", b |-> b]
VSigned(n)    == [kind |-> "i32", n |-> n]
VUnsigned(n)  == [kind |-> "u8", n |-> n]
VFloat(h)     == [kind |-> "f64", halves |-> h]
VChar(c)      == [kind |-> "char", c |-> c]
VStr(s)       == [kind |-> "str", s |-> s]
VNone         == [kind |-> "none"]
VSome(v)      == [kind |-> "some", inner |-> v]
VUnit         == [kind |-> "unit"]
VUnitStruct   == [kind |-> "unit_struct"]
\* a case of the enum Color of the doc example: the enum's name, the index
\* of the case and the name of the case, as serialize_unit_variant gets them
VUnitVariant(variant) ==
    [kind |-> "unit_variant", name |-> <<"C", "o", "l", "o", "r">>,
     variant_index |-> IF variant = <<"R", "e", "d">> THEN 0 ELSE 1,
     variant |-> variant]
VNewtype(v)   == [kind |-> "newtype_struct", inner |-> v]
VNewtypeVariant(v) == [kind |-> "newtype_variant", inner |-> v]
VComposite(k) == [kind |-> k]
\* a record value: `len` is what its Serialize impl passes to
\* serialize_struct, `fields` its declared fields in order
VStruct(len, fields) == [kind |-> "struct", len |-> len, fields |-> fields]
FPresent(key, v) == [key |-> key, skip |-> FALSE, val |-> v]
FAbsent(key)     == [key |-> key, skip |-> TRUE, val |-> VNone]

SignedKinds   == {"i8", "i16", "i32", "i64"}
UnsignedKinds == {"u8", "u16", "u32", "u64"}
PanicKinds == {"seq", "tuple", "tuple_struct", "tuple_variant", "map",
               "struct_variant", "bytes"}

(* ---------------------------------------------------------------------- *)
(* The value dispatcher: impl Serializer for &mut KeyValueSerializer.      *)
(* An operator takes the instance s = [top_parsed, output, accepted] and   *)
(* returns the instance after the call together with the call's result.    *)
(* ---------------------------------------------------------------------- *)
R(s, r) == [s |-> s, res |-> r]

\* String::push_str / String::push on self.output
push_str(s, text) == [s EXCEPT !.output = @ \o text]

\* KeyValueSerializer::new
new == [top_parsed |-> FALSE, output |-> << >>, accepted |-> 0]

\* KeyValueSerializer::into_output
into_output(s) == s.output

serialize_signed(s, v) == R(push_str(s, i64_to_string(v)), "Ok")

serialize_unsigned(s, v) == R(push_str(s, u64_to_string(v)), "Ok")

\* serialize_bool that writes Rust's own `true` / `false`
serialize_bool_lowercase(s, v) ==
    R(push_str(s, IF v THEN <<"t", "r", "u", "e">>
                       ELSE <<"f", "a", "l", "s", "e">>), "Ok")

\* serialize_bool that counts the value as the instance's top-level value
serialize_bool_sets_flag(s, v) ==
    R([push_str(s, IF v THEN <<"T", "r", "u", "e">>
                        ELSE <<"F", "a", "l", "s", "e">>)
          EXCEPT !.top_parsed = TRUE], "Ok")

serialize_bool(s, v) ==
    R(push_str(s, IF v THEN <<"T", "r", "u", "e">>
                       ELSE <<"F", "a", "l", "s", "e">>), "Ok")

serialize_f64(s, h) == R(push_str(s, f64_to_string(h)), "Ok")

serialize_char(s, c) == R(push_str(s, <<c>>), "Ok")

serialize_str(s, v) == R(push_str(s, v), "Ok")

\* serialize_none that returns the generic error
serialize_none_returns_err(s) == R(s, "Err")

\* unreachable!(..): the call panics, nothing is written
serialize_none(s) == R(s, "Panic")

serialize_unit(s) == R(s, "Ok")

serialize_unit_struct(s) == serialize_unit(s)

serialize_unit_variant(s, name, variant_index, variant) ==
    R(push_str(s, variant), "Ok")

\* serialize_bytes, serialize_seq, serialize_tuple, serialize_tuple_struct,
\* serialize_tuple_variant, serialize_map, serialize_struct_variant:
\* unimplemented!(), the call panics
serialize_unimplemented(s) == R(s, "Panic")

\* serialize_struct that forgets `self.top_parsed = true`
serialize_struct_forgets_flag(s, len) ==
    IF ~s.top_parsed
    THEN [s |-> [s EXCEPT !.accepted = @ + 1], res |-> "Ok", cnt |-> len]
    ELSE [s |-> s, res |-> "Err", cnt |-> 0]

\* serialize_struct that clears the flag when it rejects a record
serialize_struct_resets_flag(s, len) ==
    IF ~s.top_parsed
    THEN [s |-> [s EXCEPT !.top_parsed = TRUE, !.accepted = @ + 1],
          res |-> "Ok", cnt |-> len]
    ELSE [s |-> [s EXCEPT !.top_parsed = FALSE], res |-> "Err", cnt |-> 0]

\* serialize_struct without the test of top_parsed
serialize_struct_no_guard(s, len) ==
    [s |-> [s EXCEPT !.top_parsed = TRUE, !.accepted = @ + 1],
     res |-> "Ok", cnt |-> len]

\* serialize_struct whose collector counts the separators still to write,
\* len - 1, instead of the fields still to process
serialize_struct_counts_separators(s, len) ==
    IF ~s.top_parsed
    THEN [s |-> [s EXCEPT !.top_parsed = TRUE, !.accepted = @ + 1],
          res |-> "Ok", cnt |-> IF len > 0 THEN len - 1 ELSE 0]
    ELSE [s |-> s, res |-> "Err", cnt |-> 0]

\* serialize_struct: on success the collector KeyValueSerializerCounted(self, len)
serialize_struct(s, len) ==
    IF ~s.top_parsed
    THEN [s |-> [s EXCEPT !.top_parsed = TRUE, !.accepted = @ + 1],
          res |-> "Ok", cnt |-> len]
    ELSE [s |-> s, res |-> "Err", cnt |-> 0]

\* `self.1 -= 1` on a usize: a panic when the build checks overflow
\* (`checks`, the default of a debug build), a wrap-around otherwise
usize_dec(n, checks) ==
    IF n - 1 < 0
    THEN IF checks THEN [panic |-> TRUE, n |-> n]
                   ELSE [panic |-> FALSE, n |-> (n - 1) % UsizeModulus]
    ELSE [panic |-> FALSE, n |-> n - 1]

\* skip_field that writes the name and '=' of the field it skips
skip_field_writes_name(c, key, checks) ==
    LET d == usize_dec(c.cnt, checks)
        s1 == push_str(push_str(c.s, key), <<"=">>)
    IN  IF d.panic THEN [s |-> c.s, cnt |-> c.cnt, res |-> "Panic"]
        ELSE [s |-> s1, cnt |-> d.n, res |-> "Ok"]

\* skip_field that takes back the separator written after the field before
\* it when no field is left
skip_field_pops_separator(c, key, checks) ==
    LET d == usize_dec(c.cnt, checks)
        out == c.s.output
        s1 == IF d.n = 0 /\ out # << >> /\ out[Len(out)] = " "
              THEN [c.s EXCEPT !.output = SubSeq(out, 1, Len(out) - 1)]
              ELSE c.s
    IN  IF d.panic THEN [s |-> c.s, cnt |-> c.cnt, res |-> "Panic"]
        ELSE [s |-> s1, cnt |-> d.n, res |-> "Ok"]

\* KeyValueSerializerCounted::skip_field; c = [s, cnt] is the collector
skip_field(c, key, checks) ==
    LET d == usize_dec(c.cnt, checks)
    IN  IF d.panic THEN [s |-> c.s, cnt |-> c.cnt, res |-> "Panic"]
        ELSE [s |-> c.s, cnt |-> d.n, res |-> "Ok"]

\* KeyValueSerializerCounted::end
end(c) == R(c.s, "Ok")

RECURSIVE Serialize(_, _, _)
RECURSIVE serialize_field(_, _, _, _)
RECURSIVE SerializeFields(_, _, _, _)

\* serialize_some that writes a marker for "present" before the value
serialize_some_writes_marker(s, inner, checks) ==
    Serialize(inner, push_str(s, <<"S", "o", "m", "e">>), checks)

\* serialize_some: value.serialize(self)
serialize_some(s, inner, checks) == Serialize(inner, s, checks)

\* serialize_newtype_struct: value.serialize(self)
serialize_newtype_struct(s, inner, checks) == Serialize(inner, s, checks)

\* serialize_newtype_variant: value.serialize(self)
serialize_newtype_variant(s, inner, checks) == Serialize(inner, s, checks)

\* serialize_field with the test `self.1 > 0` in place of `self.1 > 1`
serialize_field_off_by_one(c, key, value, checks) ==
    LET s1 == push_str(push_str(c.s, key), <<"=">>)
        r  == Serialize(value, s1, checks)
    IN  IF r.res # "Ok"
        THEN [s |-> r.s, cnt |-> c.cnt, res |-> r.res]
        ELSE IF c.cnt > 0
             THEN [s |-> push_str(r.s, <<" ">>),
                   cnt |-> usize_dec(c.cnt, checks).n, res |-> "Ok"]
             ELSE [s |-> r.s, cnt |-> c.cnt, res |-> "Ok"]

\* serialize_field that updates the counter and writes the separator before
\* it looks at the result of the value
serialize_field_separates_on_failure(c, key, value, checks) ==
    LET s1 == push_str(push_str(c.s, key), <<"=">>)
        r  == Serialize(value, s1, checks)
    IN  IF c.cnt > 1
        THEN [s |-> push_str(r.s, <<" ">>),
              cnt |-> usize_dec(c.cnt, checks).n, res |-> r.res]
        ELSE [s |-> r.s, cnt |-> c.cnt, res |-> r.res]

\* serialize_field that writes the separator whatever the counter
serialize_field_always_separates(c, key, value, checks) ==
    LET s1 == push_str(push_str(c.s, key), <<"=">>)
        r  == Serialize(value, s1, checks)
    IN  IF r.res # "Ok"
        THEN [s |-> r.s, cnt |-> c.cnt, res |-> r.res]
        ELSE [s |-> push_str(r.s, <<" ">>),
              cnt |-> IF c.cnt > 1 THEN usize_dec(c.cnt, checks).n ELSE c.cnt,
              res |-> "Ok"]

\* KeyValueSerializerCounted::serialize_field
serialize_field(c, key, value, checks) ==
    LET s1 == push_str(push_str(c.s, key), <<"=">>)
        r  == Serialize(value, s1, checks)
    IN  IF r.res # "Ok"
        THEN [s |-> r.s, cnt |-> c.cnt, res |-> r.res]
        ELSE IF c.cnt > 1
             THEN [s |-> push_str(r.s, <<" ">>),
                   cnt |-> usize_dec(c.cnt, checks).n, res |-> "Ok"]
             ELSE [s |-> r.s, cnt |-> c.cnt, res |-> "Ok"]

\* the body of a record's Serialize impl after serialize_struct succeeded:
\* one serialize_field or skip_field per declared field, each followed by
\* `?`, then end()
SerializeFields(fields, i, c, checks) ==
    IF i > Len(fields) THEN end(c)
    ELSE LET f == fields[i]
             r == IF f.skip THEN skip_field(c, f.key, checks)
                  ELSE serialize_field(c, f.key, f.val, checks)
         IN  IF r.res # "Ok" THEN R(r.s, r.res)
             ELSE SerializeFields(fields, i + 1, [s |-> r.s, cnt |-> r.cnt], checks)

\* <T as serde::Serialize>::serialize(value, &mut *serializer): the value
\* calls the Serializer method of its kind
Serialize(v, s, checks) ==
    CASE v.kind = "bool" -> serialize_bool(s, v.b)
      [] v.kind \in SignedKinds -> serialize_signed(s, v.n)
      [] v.kind \in UnsignedKinds -> serialize_unsigned(s, v.n)
      [] v.kind = "f64" -> serialize_f64(s, v.halves)
      [] v.kind = "char" -> serialize_char(s, v.c)
      [] v.kind = "str" -> serialize_str(s, v.s)
      [] v.kind = "none" -> serialize_none(s)
      [] v.kind = "some" -> serialize_some(s, v.inner, checks)
      [] v.kind = "unit" -> serialize_unit(s)
      [] v.kind = "unit_struct" -> serialize_unit_struct(s)
      [] v.kind = "unit_variant" ->
            serialize_unit_variant(s, v.name, v.variant_index, v.variant)
      [] v.kind = "newtype_struct" -> serialize_newtype_struct(s, v.inner, checks)
      [] v.kind = "newtype_variant" -> serialize_newtype_variant(s, v.inner, checks)
      [] v.kind \in PanicKinds -> serialize_unimplemented(s)
      [] v.kind = "struct" ->
            LET r == serialize_struct(s, v.len)
            IN  IF r.res # "Ok" THEN R(r.s, r.res)
                ELSE SerializeFields(v.fields, 1, [s |-> r.s, cnt |-> r.cnt], checks)

VARIABLES
    top_parsed,       \* KeyValueSerializer.top_parsed
    output,           \* KeyValueSerializer.output
    cnt,              \* KeyValueSerializerCounted.1, the remaining-field counter
    pc,               \* "top": no collector borrows the instance; "rec": a
                      \* collector is alive; "panicked"; "consumed"
    res,              \* result of the last call: "Ok", "Err", "Panic", "None"
    last,             \* the last call made and its argument
    accepted,         \* number of Ok(KeyValueSerializerCounted(..)) returned so far
    len0,             \* the `len` the live collector was created with
    base,             \* the buffer at the moment the live collector was created
    hist,             \* the calls made on the collector, in order
    ncalls,           \* number of serializing calls made on this instance
    returned          \* what into_output returned

vars == <<top_parsed, output, cnt, pc, res, last, accepted, len0, base, hist,
          ncalls, returned>>

(* ---------------------------------------------------------------------- *)
(* The caller: the values it offers and the calls it makes                 *)
(* ---------------------------------------------------------------------- *)
\* name of the i-th declared field of the record the caller walks
FieldName(i) ==
    CASE i = 1 -> <<"k">> [] i = 2 -> <<"m">> [] i = 3 -> <<"n">>
      [] i = 4 -> <<"p">> [] i = 5 -> <<"q">> [] i = 6 -> <<"v">>
      [] OTHER -> <<"w">>

Red == <<"R", "e", "d">>
Blue == <<"B", "l", "u", "e">>

\* a flat record, and records wrapped or nested the ways the claims name
InnerRecord == VStruct(1, <<FPresent(<<"z">>, VSigned(7))>>)
GoodRecord  == VStruct(2, <<FPresent(<<"k">>, VUnsigned(42)),
                            FPresent(<<"m">>, VSome(VBool(TRUE)))>>)
NestingRecord == VStruct(2, <<FPresent(<<"k">>, VSigned(5)),
                              FPresent(<<"m">>, InnerRecord)>>)

\* values a field may hold
FieldValues ==
    { VSome(VSigned(0 - 5)), VUnitVariant(Red), InnerRecord,
      VNewtype(VSome(InnerRecord)), VComposite("map"), VNone }

\* leaf values offered at top level
TopLeaves ==
    { VBool(FALSE), VSome(VNewtype(VFloat(3))) }

\* every value offered at top level
TopValues ==
    TopLeaves \cup { GoodRecord, VSome(NestingRecord), VNone, VSome(VNone) }
              \cup { VComposite(k) : k \in {"seq", "bytes", "struct_variant"} }

\* the instance as the operators above take it
self == [top_parsed |-> top_parsed, output |-> output, accepted |-> accepted]

\* `last`: the call, its argument, the instance and counter it found, the
\* result of the call before it, whether every call before it on this
\* instance rendered a leaf at top level, and whether it repeats an offer
\* that has just failed
NoCall == [op |-> "new", val |-> VUnit, len |-> 0, pre |-> new, precnt |-> 0,
           preres |-> "None", leaves |-> TRUE, again |-> FALSE]
Call(op, v, n) ==
    [op |-> op, val |-> v, len |-> n, pre |-> self, precnt |-> cnt,
     preres |-> res,
     leaves |-> (last.leaves /\ (last.op = "new" \/
                                 (last.op = "offer" /\ last.val \in TopLeaves))),
     again |-> (op = "offer" /\ last.op = "offer" /\ last.val = v /\ res # "Ok")]

Init ==
    /\ top_parsed = new.top_parsed
    /\ output = new.output
    /\ accepted = new.accepted
    /\ cnt = 0
    /\ pc = "top"
    /\ res = "None"
    /\ last = NoCall
    /\ len0 = 0
    /\ base = << >>
    /\ hist = << >>
    /\ ncalls = 0
    /\ returned = << >>

\* the instance is dropped and KeyValueSerializer::new() makes a fresh one
New ==
    /\ last # NoCall
    /\ top_parsed' = new.top_parsed
    /\ output' = new.output
    /\ accepted' = new.accepted
    /\ cnt' = 0
    /\ pc' = "top"
    /\ res' = "None"
    /\ last' = NoCall
    /\ len0' = 0
    /\ base' = << >>
    /\ hist' = << >>
    /\ ncalls' = 0
    /\ returned' = << >>

Phase(r) == IF r = "Panic" THEN "panicked" ELSE "top"

\* value.serialize(&mut serializer) by the caller
Offer(v, checks) ==
    /\ pc = "top"
    /\ ncalls < MaxCalls
    /\ LET r == Serialize(v, self, checks)
       IN  /\ top_parsed' = r.s.top_parsed
           /\ output' = r.s.output
           /\ accepted' = r.s.accepted
           /\ res' = r.res
           /\ pc' = Phase(r.res)
    /\ last' = Call("offer", v, 0)
    /\ ncalls' = ncalls + 1
    /\ UNCHANGED <<cnt, len0, base, hist, returned>>

\* serializer.serialize_struct(name, len) by a caller that then drives the
\* collector call by call
BeginRecord(len) ==
    /\ pc = "top"
    /\ ncalls < MaxCalls
    /\ LET r == serialize_struct(self, len)
       IN  /\ top_parsed' = r.s.top_parsed
           /\ output' = r.s.output
           /\ accepted' = r.s.accepted
           /\ res' = r.res
           /\ IF r.res = "Ok"
              THEN /\ pc' = "rec"
                   /\ cnt' = r.cnt
                   /\ len0' = len
                   /\ base' = output
                   /\ hist' = << >>
              ELSE UNCHANGED <<pc, cnt, len0, base, hist>>
    /\ last' = Call("struct", VUnit, len)
    /\ ncalls' = ncalls + 1
    /\ UNCHANGED returned

HistEntry(op, key, v, r) ==
    [op |-> op, key |-> key, val |-> v, res |-> r, precnt |-> cnt]

\* collector.serialize_field(key, &value)
Field(v, checks) ==
    /\ pc = "rec"
    /\ ncalls < MaxCalls
    /\ LET key == FieldName(Len(hist) + 1)
           r == serialize_field([s |-> self, cnt |-> cnt], key, v, checks)
       IN  /\ top_parsed' = r.s.top_parsed
           /\ output' = r.s.output
           /\ accepted' = r.s.accepted
           /\ cnt' = r.cnt
           /\ res' = r.res
           /\ pc' = IF r.res = "Panic" THEN "panicked" ELSE "rec"
           /\ hist' = Append(hist, HistEntry("field", key, v, r.res))
    /\ last' = Call("field", v, 0)
    /\ ncalls' = ncalls + 1
    /\ UNCHANGED <<len0, base, returned>>

\* collector.skip_field(key)
Skip(checks) ==
    /\ pc = "rec"
    /\ ncalls < MaxCalls
    /\ LET key == FieldName(Len(hist) + 1)
           r == skip_field([s |-> self, cnt |-> cnt], key, checks)
       IN  /\ top_parsed' = r.s.top_parsed
           /\ output' = r.s.output
           /\ accepted' = r.s.accepted
           /\ cnt' = r.cnt
           /\ res' = r.res
           /\ pc' = IF r.res = "Panic" THEN "panicked" ELSE "rec"
           /\ hist' = Append(hist, HistEntry("skip", key, VNone, r.res))
    /\ last' = Call("skip", VNone, 0)
    /\ ncalls' = ncalls + 1
    /\ UNCHANGED <<len0, base, returned>>

\* collector.end(): the collector is consumed and its borrow of the
\* instance ends
End ==
    /\ pc = "rec"
    /\ ncalls < MaxCalls
    /\ LET r == end([s |-> self, cnt |-> cnt])
       IN  /\ top_parsed' = r.s.top_parsed
           /\ output' = r.s.output
           /\ accepted' = r.s.accepted
           /\ res' = r.res
    /\ pc' = "top"
    /\ last' = Call("end", VUnit, 0)
    /\ ncalls' = ncalls + 1
    /\ UNCHANGED <<cnt, len0, base, hist, returned>>

\* serializer.into_output(): the instance is consumed
IntoOutput ==
    /\ pc = "top"
    /\ returned' = into_output(self)
    /\ pc' = "consumed"
    /\ res' = "Ok"
    /\ last' = Call("into_output", VUnit, 0)
    /\ UNCHANGED <<top_parsed, output, accepted, cnt, len0, base, hist, ncalls>>

Next ==
    \/ New
    \/ \E v \in TopValues, checks \in BOOLEAN : Offer(v, checks)
    \/ \E len \in 0 .. MaxFields : BeginRecord(len)
    \/ \E v \in FieldValues, checks \in BOOLEAN : Field(v, checks)
    \/ \E checks \in BOOLEAN : Skip(checks)
    \/ End
    \/ IntoOutput

Spec == Init /\ [][Next]_vars

TypeOK ==
    /\ top_parsed \in BOOLEAN
    /\ pc \in {"top", "rec", "panicked", "consumed"}
    /\ res \in {"Ok", "Err", "Panic", "None"}
    /\ cnt \in 0 .. UsizeModulus - 1
    /\ Len(hist) <= MaxCalls /\ ncalls <= MaxCalls

(* ---------------------------------------------------------------------- *)
(* Vocabulary of the properties                                            *)
(* ---------------------------------------------------------------------- *)
\* the text a value renders to on its own, on a fresh instance (a leaf never
\* reaches the counter, so the build's overflow checks play no part)
ValueText(v) == Serialize(v, new, TRUE).s.output

\* the token name=value of a rendered field
Token(h) == h.key \o <<"=">> \o ValueText(h.val)

\* the calls of `hist` that rendered a field
RECURSIVE Rendered(_)
Rendered(h) ==
    IF h = << >> THEN << >>
    ELSE IF Head(h).op = "field" THEN <<Head(h)>> \o Rendered(Tail(h))
         ELSE Rendered(Tail(h))

\* the tokens of a sequence of rendered fields, one space between neighbours
RECURSIVE JoinTokens(_)
JoinTokens(h) ==
    IF h = << >> THEN << >>
    ELSE IF Len(h) = 1 THEN Token(h[1])
         ELSE Token(h[1]) \o <<" ">> \o JoinTokens(Tail(h))

\* the maximal space-free pieces of a text, in order
RECURSIVE SplitFrom(_, _, _, _)
SplitFrom(t, i, cur, acc) ==
    IF i > Len(t)
    THEN IF cur = << >> THEN acc ELSE Append(acc, cur)
    ELSE IF t[i] = " "
         THEN SplitFrom(t, i + 1, << >>, IF cur = << >> THEN acc ELSE Append(acc, cur))
         ELSE SplitFrom(t, i + 1, Append(cur, t[i]), acc)
Split(t) == SplitFrom(t, 1, << >>, << >>)

Occurs(ch, t) == \E i \in 1 .. Len(t) : t[i] = ch
Count(ch, t) == Cardinality({i \in 1 .. Len(t) : t[i] = ch})

\* a value with its present-optional and transparent-wrapper layers removed
RECURSIVE Unwrap(_)
Unwrap(v) ==
    IF v.kind \in {"some", "newtype_struct", "newtype_variant"}
    THEN Unwrap(v.inner) ELSE v

AllOk == \A i \in 1 .. Len(hist) : hist[i].res = "Ok"
AllRendered == \A i \in 1 .. Len(hist) : hist[i].op = "field"

\* the collector was created on an empty buffer with counter len0, received
\* exactly len0 successful field calls, and end() has just returned
RecordFinished ==
    /\ last.op = "end"
    /\ base = << >>
    /\ Len(hist) = len0
    /\ AllOk

(* ---------------------------------------------------------------------- *)
(* Properties                                                              *)
(* ---------------------------------------------------------------------- *)

\* C1: a record whose N declared fields are all present, collected with the
\* counter initialised to N on a fresh instance, leaves in the buffer exactly
\* its N tokens name=value in declared order, one space between neighbours,
\* no space before the first or after the last.
C1_AllPresentOutput ==
    (RecordFinished /\ AllRendered) => output = JoinTokens(hist)

C1_Witness ==
    /\ RecordFinished /\ AllRendered
    /\ len0 = 3
    /\ Count(" ", output) = 2

\* C2: with k of the N declared fields absent (skip_field for each absent
\* field, serialize_field for each present one, counter initialised to N),
\* the buffer holds exactly the N-k tokens of the present fields, in their
\* declared relative order, and neither the name nor an '=' of an absent
\* field.
C2_AbsentFieldsOmitted ==
    RecordFinished =>
        /\ Len(Split(output)) = Len(Rendered(hist))
        /\ \A i \in 1 .. Len(Rendered(hist)) :
              Split(output)[i] = Token(Rendered(hist)[i])
        /\ Count("=", output) = Len(Rendered(hist))
        /\ \A i \in 1 .. Len(hist) :
              hist[i].op = "skip" => ~Occurs(hist[i].key[1], output)

C2_Witness ==
    /\ RecordFinished
    /\ len0 = 3
    /\ hist[1].op = "field" /\ hist[2].op = "skip" /\ hist[3].op = "field"
    /\ Len(Split(output)) = 2

\* C3: whatever the pattern of present and absent fields (counter initialised
\* to N, N field calls), the finished buffer neither starts nor ends with a
\* space and has no two spaces in a row.
C3_NoStraySeparator ==
    RecordFinished =>
        /\ output # << >> => (output[1] # " " /\ output[Len(output)] # " ")
        /\ \A i \in 1 .. Len(output) - 1 : ~(output[i] = " " /\ output[i + 1] = " ")

\* C4: a record offered to an instance that has already accepted a record is
\* refused with Err, whatever the two records; the same record offered to a
\* fresh instance is accepted.
C4_SecondRecordRejected ==
    /\ (last.op = "struct" /\ last.pre.accepted > 0) =>
          (res = "Err" /\ serialize_struct(new, last.len).res = "Ok")
    /\ (last.op = "offer" /\ Unwrap(last.val).kind = "struct"
                          /\ last.pre.accepted > 0) =>
          res = "Err"
    /\ (last.op = "offer" /\ last.val = GoodRecord /\ last.pre.accepted > 0) =>
          \A checks \in BOOLEAN : Serialize(last.val, new, checks).res = "Ok"
    /\ (last.pre = new /\ (last.op = "struct" \/
                           (last.op = "offer" /\ last.val = GoodRecord))) =>
          res = "Ok"

C4_Witness ==
    /\ last.op = "offer" /\ last.val = GoodRecord
    /\ last.pre.accepted = 1
    /\ res = "Err"

\* C5: an instance accepts at most one record; top_parsed is false at
\* construction, true exactly once a record has been accepted, and no call
\* on the instance takes it from true back to false.
C5_SingleRecordFlag ==
    /\ accepted <= 1
    /\ top_parsed <=> (accepted = 1)
    /\ last = NoCall => ~top_parsed
    /\ (last.op # "new" /\ last.pre.top_parsed) => top_parsed

C5_Witness ==
    /\ accepted = 1
    /\ last.op = "struct" /\ last.pre.top_parsed
    /\ res = "Err"

\* C6: serialize_field on a value that is a record, directly or under
\* present-optional / wrapper layers, returns Err after writing only `name=`;
\* no record is accepted for it and no field of the nested record reaches
\* the buffer, and a record holding such a field fails as a whole.
C6_NestedRecordRejected ==
    /\ (last.op = "field" /\ Unwrap(last.val).kind = "struct") =>
          /\ res = "Err"
          /\ output = last.pre.output \o hist[Len(hist)].key \o <<"=">>
          /\ accepted = last.pre.accepted
          /\ cnt = last.precnt
    /\ (last.op = "offer" /\ last.val = VSome(NestingRecord)) => res = "Err"
    /\ ~Occurs("z", output)

C6_Witness ==
    /\ last.op = "field" /\ last.val = VNewtype(VSome(InnerRecord))
    /\ res = "Err"
    /\ Len(hist) = 2 /\ hist[1].res = "Ok"

\* C7: a compositional or unsupported value kind, at top level or as a field
\* value, at any depth, comes back to the caller as the generic error Err.
C7_CompositeGenericError ==
    (last.op \in {"offer", "field"} /\ Unwrap(last.val).kind \in PanicKinds) =>
        res = "Err"

\* C8: after a call on the instance has failed, into_output does not hand out
\* partially written text such as a dangling `name=`.
C8_NoPartialOutput ==
    (last.op = "into_output" /\ last.preres = "Err") =>
        ~(returned # << >> /\ returned[Len(returned)] = "=")

\* would offering v to the instance as it is now fail?
Fails(v) == \A checks \in BOOLEAN : Serialize(v, self, checks).res # "Ok"

\* C9: a value the instance fails on keeps failing on that instance whatever
\* is called in between; in particular an offer repeated right after it
\* failed fails again.  Only a fresh instance (New) can accept it.
C9_RetryFails ==
    [][ last'.op # "new" =>
          /\ \A v \in TopValues \cup FieldValues : Fails(v) => Fails(v)'
          /\ last'.again => res' # "Ok" ]_vars

C9_Witness ==
    /\ last.op = "offer" /\ last.again
    /\ last.val = VSome(NestingRecord)
    /\ res = "Err"
    /\ Fails(GoodRecord)

\* number of present-optional / wrapper layers put around a leaf
MaxWrap == 2

LeafValues ==
    { VBool(FALSE), VSigned(0 - 5), VFloat(3), VChar("x"), VStr(<<"h", "i">>),
      VUnit, VUnitVariant(Red) }

Layerings ==
    UNION { [1 .. n -> {"some", "newtype_struct"}] : n \in 1 .. MaxWrap }

RECURSIVE Wrap(_, _)
Wrap(layers, v) ==
    IF layers = << >> THEN v
    ELSE [kind |-> Head(layers), inner |-> Wrap(Tail(layers), v)]

\* C10: a leaf under any nesting of present-optional and wrapper layers
\* renders as the leaf itself: same text appended, same result, whatever
\* the instance holds when the caller offers it; and a wrapped value offered
\* at top level or in a field leaves what the bare value would have left.
C10_WrappersTransparent ==
    /\ pc = "top" =>
          \A v \in LeafValues, w \in Layerings, checks \in BOOLEAN :
              Serialize(Wrap(w, v), self, checks) = Serialize(v, self, checks)
    /\ (last.op = "offer" /\ last.val.kind \in {"some", "newtype_struct"}
                          /\ Unwrap(last.val) \in LeafValues) =>
          \A checks \in BOOLEAN :
              [s |-> self, res |-> res]
                  = Serialize(Unwrap(last.val), last.pre, checks)
    /\ (last.op = "field" /\ last.val.kind \in {"some", "newtype_struct"}
                          /\ Unwrap(last.val) \in LeafValues) =>
          \A checks \in BOOLEAN :
              [s |-> self, cnt |-> cnt, res |-> res]
                  = serialize_field([s |-> last.pre, cnt |-> last.precnt],
                                    hist[Len(hist)].key, Unwrap(last.val),
                                    checks)

C10_Witness ==
    /\ last.op = "offer" /\ last.val = VSome(VNewtype(VFloat(3)))
    /\ res = "Ok"
    /\ output = last.pre.output \o <<"1", ".", "5">>

\* C11: a boolean renders as exactly True or False and a bare enumerated tag
\* as exactly the name of its case (not Color::Red, not red); the call
\* appends that text and nothing else, and succeeds.
C11_BoolAndTagText ==
    /\ pc = "top" =>
          \A checks \in BOOLEAN :
              /\ Serialize(VBool(TRUE), self, checks)
                    = R([self EXCEPT !.output = @ \o <<"T", "r", "u", "e">>], "Ok")
              /\ Serialize(VBool(FALSE), self, checks)
                    = R([self EXCEPT !.output = @ \o <<"F", "a", "l", "s", "e">>], "Ok")
              /\ Serialize(VUnitVariant(Red), self, checks)
                    = R([self EXCEPT !.output = @ \o <<"R", "e", "d">>], "Ok")
              /\ Serialize(VUnitVariant(Blue), self, checks)
                    = R([self EXCEPT !.output = @ \o <<"B", "l", "u", "e">>], "Ok")
    /\ (last.op = "offer" /\ last.val = VBool(FALSE)) =>
          /\ res = "Ok"
          /\ self = [last.pre EXCEPT !.output = @ \o <<"F", "a", "l", "s", "e">>]
    /\ (last.op = "offer" /\ last.val = GoodRecord /\ res = "Ok") =>
          output = last.pre.output
                     \o <<"k", "=", "4", "2", " ", "m", "=", "T", "r", "u", "e">>
    /\ (last.op = "field" /\ last.val = VUnitVariant(Red)) =>
          /\ res = "Ok"
          /\ SubSeq(output, 1, Len(last.pre.output) + 5)
                = last.pre.output \o hist[Len(hist)].key \o <<"=", "R", "e", "d">>
          /\ Len(output) <= Len(last.pre.output) + 6

C11_Witness ==
    /\ last.op = "field" /\ last.val = VUnitVariant(Red)
    /\ hist[1].val = VUnitVariant(Red) /\ Len(hist) = 2
    /\ output = <<"k", "=", "R", "e", "d", " ", "m", "=", "R", "e", "d">>

IsPrefix(a, b) == Len(a) <= Len(b) /\ SubSeq(b, 1, Len(a)) = a

\* C12: the buffer is append-only: whatever the call (dispatcher or
\* collector, Ok, Err or panic), the buffer it found is a prefix of the
\* buffer it leaves, and into_output hands out the buffer as it is.
C12_AppendOnly ==
    /\ last.op # "new" => IsPrefix(last.pre.output, output)
    /\ pc = "rec" => IsPrefix(base, output)
    /\ last.op = "into_output" => returned = last.pre.output

C12_Witness ==
    /\ last.op = "skip" /\ res = "Ok" /\ cnt = 0
    /\ output # << >> /\ output[Len(output)] = " "
    /\ output = last.pre.output

\* the collector has received at most len0 field calls, all of them Ok, the
\* last of them just now
FieldCallsOk ==
    /\ last.op \in {"field", "skip"}
    /\ AllOk
    /\ Len(hist) <= len0

\* C13 (as stated): every field processed, rendered or skipped, takes exactly
\* one off the counter: after j field calls on a collector created with N the
\* counter is N-j.
C13_CounterCountsEveryField ==
    FieldCallsOk => cnt = len0 - Len(hist)

\* C13 (amended): a skipped field, and a rendered field that finds the
\* counter above one, take exactly one off the counter; a rendered field that
\* finds it at one leaves it there.  After j <= N successful field calls on a
\* collector created with N the counter is N-j, except that it is 1 when
\* j = N and the N-th field was rendered.
C13_CounterAfterFields ==
    FieldCallsOk =>
        /\ last.op = "skip" => cnt = last.precnt - 1
        /\ last.op = "field" =>
              cnt = IF last.precnt > 1 THEN last.precnt - 1 ELSE last.precnt
        /\ cnt = IF Len(hist) = len0 /\ last.op = "field" THEN 1
                 ELSE len0 - Len(hist)

C13_Witness ==
    /\ FieldCallsOk
    /\ len0 = 3 /\ Len(hist) = 3
    /\ hist[1].op = "field" /\ hist[2].op = "skip" /\ hist[3].op = "field"
    /\ cnt = 1

\* C14: skip_field writes nothing (buffer and top_parsed as it found them),
\* takes exactly one off the counter whatever the counter is, and always
\* returns Ok.
C14_SkipFieldFrame ==
    last.op = "skip" =>
        /\ res = "Ok"
        /\ output = last.pre.output
        /\ top_parsed = last.pre.top_parsed
        /\ cnt = last.precnt - 1

\* the key and '=' of the field call just made
LastKeyEq == hist[Len(hist)].key \o <<"=">>

\* C15: when the dispatcher fails on the value of a field, serialize_field
\* returns that failure, writes no separator after `name=` and whatever the
\* dispatcher wrote, and leaves the counter as it found it.
C15_FieldFailurePropagates ==
    (last.op = "field" /\ res # "Ok") =>
        \E checks \in BOOLEAN :
            LET r == Serialize(last.val, push_str(last.pre, LastKeyEq), checks)
            IN  /\ r.res = res
                /\ self = r.s
                /\ output = last.pre.output \o LastKeyEq
                /\ cnt = last.precnt

C15_Witness ==
    /\ last.op = "field" /\ res = "Err"
    /\ last.precnt = 2 /\ cnt = 2
    /\ Len(hist) = 2 /\ hist[1].res = "Ok"
    /\ output[Len(output)] = "="

\* C16: an absent-value marker that reaches the dispatcher (as the value of
\* serialize_field, offered at top level, or inside a present optional) makes
\* the call panic, which is not the generic error Err; the marker itself
\* adds nothing to the buffer.
C16_AbsentMarkerFatal ==
    /\ (last.op \in {"offer", "field"} /\ Unwrap(last.val).kind = "none") =>
          /\ res = "Panic"
          /\ pc = "panicked"
          /\ top_parsed = last.pre.top_parsed
    /\ (last.op = "offer" /\ Unwrap(last.val).kind = "none") =>
          output = last.pre.output
    /\ (last.op = "field" /\ Unwrap(last.val).kind = "none") =>
          /\ output = last.pre.output \o LastKeyEq
          /\ cnt = last.precnt

C16_Witness ==
    /\ last.op = "field" /\ last.val = VNone
    /\ res = "Panic"
    /\ Len(hist) = 2 /\ hist[1].res = "Ok"
    /\ output = last.pre.output \o <<"m", "=">>

\* C17: after a field whose value was rendered, serialize_field writes the
\* separator exactly when the counter it found was greater than one; on a
\* collector created with counter N that receives at most N field calls, all
\* successful, the rendered fields that found the counter greater than one
\* are exactly those that are not the N-th call.
C17_SeparatorIffCounterAboveOne ==
    /\ (last.op = "field" /\ res = "Ok") =>
          \E checks \in BOOLEAN :
              LET r == Serialize(last.val, push_str(last.pre, LastKeyEq), checks)
              IN  /\ r.res = "Ok"
                  /\ output = r.s.output
                                \o (IF last.precnt > 1 THEN <<" ">> ELSE << >>)
    /\ (AllOk /\ Len(hist) <= len0) =>
          \A i \in 1 .. Len(hist) :
              hist[i].op = "field" => (hist[i].precnt > 1 <=> i < len0)

\* the three declared fields of a record rendered: the first two found the
\* counter above one and are followed by a space, the third is not
C17_Witness ==
    /\ last.op = "field" /\ res = "Ok"
    /\ len0 = 3 /\ Len(hist) = 3 /\ AllOk /\ AllRendered
    /\ last.precnt = 1
    /\ output[Len(output)] # " "
    /\ Count(" ", output) = 2

\* C18: on a collector created with counter N that receives at most N field
\* calls, every call finds the counter at one or more, so that skip_field
\* never subtracts from zero: it never panics and the counter never wraps,
\* staying within 0 .. N.
C18_NoUnderflowWithinDeclaredFields ==
    Len(hist) <= len0 =>
        /\ \A i \in 1 .. Len(hist) :
              /\ hist[i].precnt >= 1
              /\ hist[i].precnt >= len0 - i + 1
              /\ hist[i].op = "skip" => hist[i].res = "Ok"
        /\ cnt \in 0 .. len0
        /\ last.op = "skip" => cnt = last.precnt - 1

\* the last declared field of a record is skipped: the counter goes 1 -> 0
C18_Witness ==
    /\ last.op = "skip" /\ res = "Ok"
    /\ len0 = 2 /\ Len(hist) = 2
    /\ last.precnt = 1 /\ cnt = 0

\* nothing but leaves rendered at top level has been asked of the instance
\* since KeyValueSerializer::new()
OnlyLeaves ==
    /\ last.leaves
    /\ last.op = "new" \/ (last.op = "offer" /\ last.val \in TopLeaves)

\* C19: a leaf rendered at top level, bare or under present-optional and
\* wrapper layers, leaves top_parsed as it was; so after any number of them
\* on a fresh instance top_parsed is still false, the first record offered
\* is accepted, and its text comes after the text already in the buffer.
C19_LeavesKeepFlag ==
    /\ pc = "top" =>
          \A v \in LeafValues \cup { Wrap(w, VUnit) : w \in Layerings },
             checks \in BOOLEAN :
              LET r == Serialize(v, self, checks)
              IN  /\ r.res = "Ok"
                  /\ r.s.top_parsed = top_parsed
                  /\ r.s.accepted = accepted
    /\ (last.op = "offer" /\ last.val \in TopLeaves) =>
          /\ res = "Ok"
          /\ top_parsed = last.pre.top_parsed
          /\ accepted = last.pre.accepted
    /\ OnlyLeaves =>
          /\ pc = "top" /\ ~top_parsed
          /\ \A checks \in BOOLEAN :
                Serialize(GoodRecord, self, checks)
                    = R([top_parsed |-> TRUE, accepted |-> 1,
                         output |-> output \o <<"k", "=", "4", "2", " ",
                                                "m", "=", "T", "r", "u", "e">>],
                        "Ok")
    /\ (last.op = "struct" /\ last.leaves) =>
          /\ res = "Ok" /\ pc = "rec" /\ accepted = 1
          /\ base = last.pre.output /\ output = base
    /\ (last.op = "offer" /\ last.val = GoodRecord /\ last.leaves) =>
          /\ res = "Ok"
          /\ output = last.pre.output \o ValueText(GoodRecord)
    /\ (last.op = "end" /\ AllOk /\ AllRendered /\ Len(hist) = len0) =>
          output = base \o JoinTokens(hist)

\* two leaves, then a record of one field driven to its end: the token of
\* the record follows the text of the leaves
C19_Witness ==
    /\ last.op = "end" /\ AllOk /\ AllRendered
    /\ len0 = 1 /\ Len(hist) = 1
    /\ base = <<"F", "a", "l", "s", "e", "1", ".", "5">>
    /\ output = base \o <<"k", "=", "R", "e", "d">>

\* C20: serialize_struct on an instance whose top_parsed is already true
\* returns Err and changes nothing: buffer and flag are what the call found,
\* no collector is handed out (no record is accepted, the state of the
\* collector that came before is not touched).
C20_RejectionChangesNothing ==
    /\ (last.op = "struct" /\ last.pre.top_parsed) =>
          /\ res = "Err"
          /\ self = last.pre
          /\ pc = "top"
          /\ cnt = last.precnt
    /\ (last.op = "offer" /\ last.val = GoodRecord /\ last.pre.top_parsed) =>
          /\ res = "Err"
          /\ self = last.pre
          /\ pc = "top"
          /\ cnt = last.precnt
    /\ pc = "top" =>
          \A len \in 0 .. MaxFields :
              top_parsed => serialize_struct(self, len)
                                = [s |-> self, res |-> "Err", cnt |-> 0]

\* a second record begun after the first was collected to its end
C20_Witness ==
    /\ last.op = "struct" /\ last.pre.top_parsed
    /\ res = "Err"
    /\ last.preres = "Ok" /\ Len(hist) = 1
    /\ output = <<"k", "=", "R", "e", "d">>

====
